---------------------------- MODULE Spec2Model ----------------------------
(***************************************************************************)
(* paired-end_barcode_splitter.py: the job driver (main), the external     *)
(* classification step and the mate-2 synchronisation loop of              *)
(* BarcodeSplitter.run, as a state machine.                                *)
(*                                                                         *)
(* A text line is the sequence of its whitespace-separated tokens followed *)
(* by the token NL for its line terminator; readline() at the end of a     *)
(* file gives the empty line.  A FASTQ file is a sequence of lines, four   *)
(* per read, possibly cut short inside its last read.                      *)
(***************************************************************************)
EXTENDS Integers, Sequences, FiniteSets, TLC

\* Bounds of the model.
MaxSlots == 2
MaxBucketLen == 2
MaxMate2Len == 2
NumJobs == 2
MaxCutFiles == 1
Keys == {"id1", "id2"}

\* A read is 4 lines: xrange(4) in every read of the source.
LinesPerRead == 4

NL == "\n"
Empty == << >>

Min(a, b) == IF a < b THEN a ELSE b

---------------------------------------------------------------------------
\* Text and files

\* The four lines of the read named k in the file of mate m.
ReadLines(k, m) == << <<k, m, NL>>, <<"ACGT", NL>>, <<"+", NL>>, <<"IIII", NL>> >>

\* The file holding the reads ks of mate m, its last cut lines missing.
FastqFile(ks, m, cut) ==
    [n \in 1..(LinesPerRead * Len(ks) - cut) |->
        ReadLines(ks[((n - 1) \div LinesPerRead) + 1], m)[((n - 1) % LinesPerRead) + 1]]

\* file.readline() at position pos (lines already read): the line, "" at the end.
readline(f, pos) == IF pos < Len(f) THEN f[pos + 1] ELSE Empty

\* [ f.readline() for j in xrange(4) ]
read4(f, pos) == [j \in 1..LinesPerRead |-> readline(f, pos + j - 1)]

\* The position after reading 4 lines.
after4(f, pos) == Min(pos + LinesPerRead, Len(f))

\* str.strip(): the line without its terminator.
strip(line) == SelectSeq(line, LAMBDA t : t # NL)

\* str.split(): the tokens of the line.
split(line) == SelectSeq(line, LAMBDA t : t # NL)

\* all(lines): every line is a non-empty string.
all(lines) == \A j \in 1..Len(lines) : lines[j] # Empty

\* read_2_lines[0].split()[0]
read_name_of(lines) == split(lines[1])[1]

---------------------------------------------------------------------------
\* Inputs

KeySeqs(n) == UNION {[1..m -> Keys] : m \in 0..n}

Cuts(ks) == IF Len(ks) = 0 THEN {0} ELSE 0..(LinesPerRead - 1)

Mate2Files == {FastqFile(ks, "2", c) : <<ks, c>> \in
                 {kc \in KeySeqs(MaxMate2Len) \X (0..(LinesPerRead - 1)) : kc[2] \in Cuts(kc[1])}}

BucketFiles == {FastqFile(ks, "1", c) : <<ks, c>> \in
                 {kc \in KeySeqs(MaxBucketLen) \X (0..(LinesPerRead - 1)) : kc[2] \in Cuts(kc[1])}}

BucketLists == UNION {[1..n -> BucketFiles] : n \in 0..MaxSlots}

\* A file that ends inside a read.
IsCut(f) == Len(f) % LinesPerRead # 0

CutCount(m2, bs) ==
    Cardinality({i \in 1..Len(bs) : IsCut(bs[i])}) + (IF IsCut(m2) THEN 1 ELSE 0)

---------------------------------------------------------------------------
VARIABLES
    pc,                     \* the statement the program is at
    job,                    \* the number of jobs started (lines of the batch read)
    exc,                    \* the exception propagating, or "none"
    file_2,                 \* the lines of the mate-2 file of the job
    demux1,                 \* the classifier's *_demux1.fastq files on disk
    p,                      \* the classifier process
    fnames,                 \* the listed bucket files
    f_2,                    \* the mate-2 input handle
    demultiplexed_files_1,  \* the handles opened by line 183
    demultiplexed_files_2,  \* the handles opened by line 187, with what was written
    assigned,               \* the local names of run() bound so far
    slots,                  \* the lookahead lines of each bucket
    read_2_lines,           \* the mate-2 lines read last
    log,                    \* self.log
    stderr                  \* the diagnostics the job wrote to sys.stderr

vars == <<pc, job, exc, file_2, demux1, p, fnames, f_2, demultiplexed_files_1,
          demultiplexed_files_2, assigned, slots, read_2_lines, log, stderr>>

NewLog == [demultiplexed |-> 0, not_matched |-> 0]

NoHandle == [st |-> "none", pos |-> 0]

Init ==
    /\ pc = "main"
    /\ job = 0
    /\ exc = "none"
    /\ file_2 = << >>
    /\ demux1 = << >>
    /\ p = "none"
    /\ fnames = << >>
    /\ f_2 = NoHandle
    /\ demultiplexed_files_1 = << >>
    /\ demultiplexed_files_2 = << >>
    /\ assigned = {}
    /\ slots = << >>
    /\ read_2_lines = << >>
    /\ log = NewLog
    /\ stderr = << >>

---------------------------------------------------------------------------
\* Handles

OpenHandle == [st |-> "open", pos |-> 0]

\* Line 187 opening in mode "a": the output starts with what an earlier run left.
OutHandleAppend == [st |-> "open", data |-> ReadLines("id1", "2")]

OutHandle == [st |-> "open", data |-> << >>]

\* file.close(): the handle is closed whether or not close() raises.
close(h) == [h EXCEPT !.st = "closed"]

\* The map of lines 232-233 stopping one handle short.
close_all_but_last(hs, failed) ==
    [i \in 1..Len(hs) |->
        IF (failed = 0 \/ i <= failed) /\ i < Len(hs) THEN [hs[i] EXCEPT !.st = "closed"]
        ELSE hs[i]]

\* map(lambda x: x.close(), hs), the close of hs[failed] raising (0: none
\* raises): map stops at the exception, the later handles are not closed.
close_all(hs, failed) ==
    [i \in 1..Len(hs) |-> IF failed = 0 \/ i <= failed THEN close(hs[i]) ELSE hs[i]]

\* The handles a list comprehension had opened when its next open raised: no
\* name refers to them; a reference-counting runtime closes them as the
\* unfinished list is dropped, another runtime leaves them open.
dropped(hs, collected) ==
    [i \in 1..Len(hs) |-> IF collected THEN close(hs[i]) ELSE hs[i]]

---------------------------------------------------------------------------
\* The scan of lines 208-221

\* The first bucket, from index i on, whose lookahead is a read named name;
\* 0 when there is none (found stays False).
RECURSIVE scan(_, _, _)
scan(ss, name, i) ==
    IF i > Len(ss) THEN 0
    ELSE IF ss[i][1] = Empty THEN scan(ss, name, i + 1)
    ELSE IF split(ss[i][1])[1] = name THEN i
    ELSE scan(ss, name, i + 1)

\* The scan started at the second bucket: for i in xrange(1, len(fnames)).
find_slot_skip_first(ss, name) == scan(ss, name, 2)

\* The scan without its break: the last bucket that matches is the one kept.
find_slot_last(ss, name) ==
    LET M == {i \in 1..Len(ss) : ss[i][1] # Empty /\ split(ss[i][1])[1] = name}
    IN  IF M = {} THEN 0 ELSE CHOOSE i \in M : \A j \in M : j <= i

\* The scan with the comparison of line 215 dropped: the first bucket that
\* is not at its end.
find_slot_any(ss, name) ==
    LET M == {i \in 1..Len(ss) : ss[i][1] # Empty}
    IN  IF M = {} THEN 0 ELSE CHOOSE i \in M : \A j \in M : i <= j

\* The scan with the test of line 213 turned around: a bucket at the end of
\* its file is taken as a match.
find_slot_at_end(ss, name) ==
    LET M == {i \in 1..Len(ss) :
                 IF ss[i][1] = Empty THEN TRUE ELSE split(ss[i][1])[1] = name}
    IN  IF M = {} THEN 0 ELSE CHOOSE i \in M : \A j \in M : i <= j

find_slot(ss, name) == scan(ss, name, 1)

---------------------------------------------------------------------------
\* main and barcode_splitter

\* An uncaught exception leaves run(), barcode_splitter() and main(): the
\* batch loop of line 272 has no handler, the interpreter exits.
Propagate(e) ==
    /\ exc' = e
    /\ pc' = "crashed"

\* Lines 272-277, 241-243 and 129-133: the next line of the batch, a new
\* BarcodeSplitter with its own log, a new frame of run().
StartJob ==
    /\ pc = "main"
    /\ job < NumJobs
    /\ job' = job + 1
    /\ \E m2 \in Mate2Files : file_2' = m2
    /\ log' = NewLog
    /\ demux1' = << >>
    /\ p' = "none"
    /\ fnames' = << >>
    /\ f_2' = NoHandle
    /\ demultiplexed_files_1' = << >>
    /\ demultiplexed_files_2' = << >>
    /\ assigned' = {}
    /\ slots' = << >>
    /\ read_2_lines' = << >>
    /\ stderr' = << >>
    /\ pc' = "classify"
    /\ UNCHANGED exc

\* Lines 272 and 278: the batch is read to its end, main returns 0.
Return ==
    /\ pc = "main"
    /\ job = NumJobs
    /\ pc' = "exit"
    /\ UNCHANGED <<job, exc, file_2, demux1, p, fnames, f_2, demultiplexed_files_1,
                   demultiplexed_files_2, assigned, slots, read_2_lines, log, stderr>>

---------------------------------------------------------------------------
\* BarcodeSplitter.run

\* Lines 163-167 without the p.wait() of line 168: the classifier still runs.
ClassifyNoWait ==
    /\ pc = "classify"
    /\ p' = "running"
    /\ \E bs \in BucketLists :
          /\ CutCount(file_2, bs) <= MaxCutFiles
          /\ demux1' = bs
    /\ pc' = "listdir"
    /\ UNCHANGED <<job, exc, file_2, fnames, f_2, demultiplexed_files_1,
                   demultiplexed_files_2, assigned, slots, read_2_lines, log, stderr>>

\* Lines 163-168: file_1 is copied to the classifier, which is waited for;
\* its exit status is dropped.  The classifier leaves its buckets on disk.
ClassifyExits ==
    /\ pc = "classify"
    /\ \E status \in {"exit_0", "exit_nonzero"} : p' = status
    /\ \E bs \in BucketLists :
          /\ CutCount(file_2, bs) <= MaxCutFiles
          /\ demux1' = bs
    /\ pc' = "listdir"
    /\ UNCHANGED <<job, exc, file_2, fnames, f_2, demultiplexed_files_1,
                   demultiplexed_files_2, assigned, slots, read_2_lines, log, stderr>>

\* Lines 164-166: the open of file_1, Popen or the copy to the pipe raises.
ClassifyRaises ==
    /\ pc = "classify"
    /\ \E e \in {"IOError", "OSError"} : Propagate(e)
    /\ p' = IF exc' = "OSError" THEN "not_started" ELSE "not_waited"
    /\ UNCHANGED <<job, file_2, demux1, fnames, f_2, demultiplexed_files_1,
                   demultiplexed_files_2, assigned, slots, read_2_lines, log, stderr>>

\* Lines 171-173: the bucket files, in the order the directory lists them.
ListDir ==
    /\ pc = "listdir"
    /\ fnames' = [i \in 1..Len(demux1) |-> i]
    /\ pc' = "open_f_2"
    /\ UNCHANGED <<job, exc, file_2, demux1, p, f_2, demultiplexed_files_1,
                   demultiplexed_files_2, assigned, slots, read_2_lines, log, stderr>>

\* Lines 176-177: with openf2(self.file_2, "rb") as f_2
OpenMate2 ==
    /\ pc = "open_f_2"
    /\ \E ok \in BOOLEAN :
          IF ok THEN /\ f_2' = OpenHandle
                     /\ pc' = "open_1"
                     /\ UNCHANGED exc
                ELSE /\ Propagate("IOError")
                     /\ UNCHANGED f_2
    /\ UNCHANGED <<job, file_2, demux1, p, fnames, demultiplexed_files_1,
                   demultiplexed_files_2, assigned, slots, read_2_lines, log, stderr>>

\* Lines 183-184: n of the opens succeed; the list is bound when all did.
OpenDemux1 ==
    /\ pc = "open_1"
    /\ \E n \in 0..Len(fnames) :
          IF n = Len(fnames)
          THEN /\ demultiplexed_files_1' = [i \in 1..n |-> OpenHandle]
               /\ assigned' = assigned \cup {"demultiplexed_files_1"}
               /\ pc' = "open_2"
               /\ UNCHANGED exc
          ELSE /\ \E collected \in BOOLEAN :
                     demultiplexed_files_1' = dropped([i \in 1..n |-> OpenHandle], collected)
               /\ exc' = "IOError"
               /\ pc' = "finally"
               /\ UNCHANGED assigned
    /\ UNCHANGED <<job, file_2, demux1, p, fnames, f_2, demultiplexed_files_2,
                   slots, read_2_lines, log, stderr>>

\* Lines 187-188
OpenDemux2 ==
    /\ pc = "open_2"
    /\ \E n \in 0..Len(fnames) :
          IF n = Len(fnames)
          THEN /\ demultiplexed_files_2' = [i \in 1..n |-> OutHandle]
               /\ assigned' = assigned \cup {"demultiplexed_files_2"}
               /\ pc' = "prime"
               /\ UNCHANGED exc
          ELSE /\ \E collected \in BOOLEAN :
                     demultiplexed_files_2' = dropped([i \in 1..n |-> OutHandle], collected)
               /\ exc' = "IOError"
               /\ pc' = "finally"
               /\ UNCHANGED assigned
    /\ UNCHANGED <<job, file_2, demux1, p, fnames, f_2, demultiplexed_files_1,
                   slots, read_2_lines, log, stderr>>

\* Lines 192-193: the first read of every bucket, its lines stripped.  When
\* the read of bucket n + 1 raises, slots stays unbound.
prime(f) == [j \in 1..LinesPerRead |-> strip(read4(f, 0)[j])]

Prime ==
    /\ pc = "prime"
    /\ \E n \in 0..Len(fnames) :
          /\ demultiplexed_files_1' =
                [i \in 1..Len(fnames) |->
                    IF i <= n
                    THEN [demultiplexed_files_1[i] EXCEPT !.pos = after4(demux1[fnames[i]], 0)]
                    ELSE demultiplexed_files_1[i]]
          /\ IF n = Len(fnames)
             THEN /\ slots' = [i \in 1..n |-> prime(demux1[fnames[i]])]
                  /\ pc' = "read"
                  /\ UNCHANGED exc
             ELSE /\ exc' = "IOError"
                  /\ pc' = "finally"
                  /\ UNCHANGED slots
    /\ UNCHANGED <<job, file_2, demux1, p, fnames, f_2, demultiplexed_files_2,
                   assigned, read_2_lines, log, stderr>>

\* Lines 196 and 230: read_2_lines = [ f_2.readline() for j in xrange(4) ]
ReadMate2Ok ==
    /\ read_2_lines' = read4(file_2, f_2.pos)
    /\ f_2' = [f_2 EXCEPT !.pos = after4(file_2, f_2.pos)]
    /\ pc' = "loop"
    /\ UNCHANGED exc

ReadMate2Raises ==
    /\ exc' = "IOError"
    /\ pc' = "finally"
    /\ UNCHANGED <<read_2_lines, f_2>>

ReadFirst ==
    /\ pc = "read"
    /\ (ReadMate2Ok \/ ReadMate2Raises)
    /\ UNCHANGED <<job, file_2, demux1, p, fnames, demultiplexed_files_1,
                   demultiplexed_files_2, assigned, slots, log, stderr>>

\* Line 216 run twice for one mate-2 read.
writelines_twice(h, lines) == [h EXCEPT !.data = h.data \o lines \o lines]

\* Line 216: demultiplexed_files_2[i].writelines(read_2_lines)
writelines(h, lines) == [h EXCEPT !.data = h.data \o lines]

\* Lines 217-218: the next 4 lines of bucket i, not stripped.
advance(f, pos) == read4(f, pos)

\* Lines 199-230, one turn of the while loop for a read whose mate is the
\* lookahead of bucket i: the write, the next lookahead, the count, and the
\* next read of file_2.  Each of the three file operations may raise, which
\* ends the turn at that statement.
Matched(i) ==
    \E raises \in {"never", "write", "readline_1", "readline_2"} :
       /\ demultiplexed_files_2' =
             IF raises = "write" THEN demultiplexed_files_2
             ELSE [demultiplexed_files_2 EXCEPT ![i] = writelines(@, read_2_lines)]
       /\ IF raises \in {"write", "readline_1"}
          THEN UNCHANGED <<slots, demultiplexed_files_1, log>>
          ELSE /\ slots' = [slots EXCEPT
                     ![i] = advance(demux1[fnames[i]], demultiplexed_files_1[i].pos)]
               /\ demultiplexed_files_1' = [demultiplexed_files_1 EXCEPT
                     ![i].pos = after4(demux1[fnames[i]], @)]
               /\ log' = [log EXCEPT !.demultiplexed = @ + 1]
       /\ IF raises = "never" THEN ReadMate2Ok ELSE ReadMate2Raises
       /\ UNCHANGED stderr

\* Lines 224-230 with the count of line 227 left out.
NotMatchedNoCount ==
    /\ stderr' = Append(stderr, read_name_of(read_2_lines))
    /\ (ReadMate2Ok \/ ReadMate2Raises)
    /\ UNCHANGED <<log, slots, demultiplexed_files_1, demultiplexed_files_2>>

\* Lines 224-230 with the read kept in the output of the first bucket.
NotMatchedKept ==
    /\ stderr' = Append(stderr, read_name_of(read_2_lines))
    /\ log' = [log EXCEPT !.not_matched = @ + 1]
    /\ demultiplexed_files_2' =
          IF Len(demultiplexed_files_2) = 0 THEN demultiplexed_files_2
          ELSE [demultiplexed_files_2 EXCEPT ![1].data = @ \o read_2_lines]
    /\ (ReadMate2Ok \/ ReadMate2Raises)
    /\ UNCHANGED <<slots, demultiplexed_files_1>>

\* Lines 224-230: no bucket has the read as its lookahead.
NotMatched ==
    /\ stderr' = Append(stderr, read_name_of(read_2_lines))
    /\ log' = [log EXCEPT !.not_matched = @ + 1]
    /\ (ReadMate2Ok \/ ReadMate2Raises)
    /\ UNCHANGED <<slots, demultiplexed_files_1, demultiplexed_files_2>>

Loop ==
    /\ pc = "loop"
    /\ all(read_2_lines)
    /\ LET i == find_slot(slots, read_name_of(read_2_lines))
       IN  IF i # 0 THEN Matched(i) ELSE NotMatched
    /\ UNCHANGED <<job, file_2, demux1, p, fnames, assigned>>

\* Line 199 as "while True" with the empty read skipped: the loop spins at
\* the end of the mate-2 file.
LoopSpins ==
    /\ pc = "loop"
    /\ ~all(read_2_lines)
    /\ UNCHANGED vars

\* Line 199: a line of read_2_lines is empty, the loop ends.
LoopEnds ==
    /\ pc = "loop"
    /\ ~all(read_2_lines)
    /\ pc' = "finally"
    /\ UNCHANGED <<job, exc, file_2, demux1, p, fnames, f_2, demultiplexed_files_1,
                   demultiplexed_files_2, assigned, slots, read_2_lines, log, stderr>>

\* Lines 231-233, entered with or without an exception.  A name the try
\* block did not bind raises UnboundLocalError; a close that raises ends the
\* clause; either replaces the exception that was propagating.
Finally ==
    /\ pc = "finally"
    /\ pc' = "exit_with"
    /\ IF "demultiplexed_files_1" \notin assigned
       THEN /\ exc' = "UnboundLocalError"
            /\ UNCHANGED <<demultiplexed_files_1, demultiplexed_files_2>>
       ELSE \E failed_1 \in 0..Len(demultiplexed_files_1) :
               /\ demultiplexed_files_1' = close_all(demultiplexed_files_1, failed_1)
               /\ IF failed_1 # 0
                  THEN /\ exc' = "IOError"
                       /\ UNCHANGED demultiplexed_files_2
                  ELSE IF "demultiplexed_files_2" \notin assigned
                  THEN /\ exc' = "UnboundLocalError"
                       /\ UNCHANGED demultiplexed_files_2
                  ELSE \E failed_2 \in 0..Len(demultiplexed_files_2) :
                          /\ demultiplexed_files_2' = close_all(demultiplexed_files_2, failed_2)
                          /\ exc' = IF failed_2 # 0 THEN "IOError" ELSE exc
    /\ UNCHANGED <<job, file_2, demux1, p, fnames, f_2, assigned, slots,
                   read_2_lines, log, stderr>>

\* Line 177, the end of the with block: f_2 is closed; run() returns to the
\* batch loop, or the exception goes on.
ExitWith ==
    /\ pc = "exit_with"
    /\ f_2' = close(f_2)
    /\ \E raises \in BOOLEAN :
          IF raises THEN Propagate("IOError")
          ELSE IF exc # "none" THEN Propagate(exc)
          ELSE /\ pc' = "main"
               /\ UNCHANGED exc
    /\ UNCHANGED <<job, file_2, demux1, p, fnames, demultiplexed_files_1,
                   demultiplexed_files_2, assigned, slots, read_2_lines, log, stderr>>

---------------------------------------------------------------------------
Next ==
    \/ StartJob
    \/ Return
    \/ ClassifyExits
    \/ ClassifyRaises
    \/ ListDir
    \/ OpenMate2
    \/ OpenDemux1
    \/ OpenDemux2
    \/ Prime
    \/ ReadFirst
    \/ Loop
    \/ LoopEnds
    \/ Finally
    \/ ExitWith

Spec == Init /\ [][Next]_vars

---------------------------------------------------------------------------
\* Vocabulary of the properties

\* The name of a read: the first token of its identifier line.
Key(line) == line[1]

\* The names of the reads of a file, a last incomplete read included.
KeysOf(f) ==
    [r \in 1..((Len(f) + LinesPerRead - 1) \div LinesPerRead) |->
        Key(f[LinesPerRead * (r - 1) + 1])]

\* The 4 lines that follow position pos of file f, "" past its end.
LinesAt(f, pos) == [j \in 1..LinesPerRead |-> IF pos + j <= Len(f) THEN f[pos + j] ELSE Empty]

\* 1 to 3 lines followed by the end of the file.
IsPartial(lines) ==
    /\ Len(lines) = LinesPerRead
    /\ lines[1] # Empty
    /\ \E j \in 2..LinesPerRead : lines[j] = Empty

IsPrefix(a, b) == Len(a) <= Len(b) /\ SubSeq(b, 1, Len(a)) = a

RECURSIVE IsSubseq(_, _)
IsSubseq(a, b) ==
    IF a = << >> THEN TRUE
    ELSE IF b = << >> THEN FALSE
    ELSE IF Head(a) = Head(b) THEN IsSubseq(Tail(a), Tail(b))
    ELSE IsSubseq(a, Tail(b))

InSlot(k, i) == \E n \in 1..Len(KeysOf(demux1[i])) : KeysOf(demux1[i])[n] = k

\* The mate-2 names, in order, that occur in bucket i.
Belonging(i) == SelectSeq(KeysOf(file_2), LAMBDA k : InSlot(k, i))

\* run() returned without an exception: the program is back in the batch loop.
EndedNormally == pc \in {"main", "exit"} /\ job >= 1

\* Every file of the job holds whole reads only.
WholeReads == CutCount(file_2, demux1) = 0

EachKeyInOneSlot ==
    \A n \in 1..Len(KeysOf(file_2)) :
        Cardinality({i \in 1..Len(demux1) : InSlot(KeysOf(file_2)[n], i)}) = 1

\* The buckets whose lookahead is a read named as the mate-2 read at hand.
MatchSet ==
    {i \in 1..Len(slots) :
        slots[i][1] # Empty /\ Key(slots[i][1]) = Key(read_2_lines[1])}

Lowest(S) == CHOOSE i \in S : \A j \in S : i <= j

\* A turn of the while loop is about to process read_2_lines.
AtRecord == pc = "loop" /\ all(read_2_lines)

\* The complete reads read from f_2 so far.
RecordsRead == f_2.pos \div LinesPerRead

Counted == log.demultiplexed + log.not_matched

NoneOpen ==
    /\ f_2.st # "open"
    /\ \A i \in 1..Len(demultiplexed_files_1) : demultiplexed_files_1[i].st # "open"
    /\ \A i \in 1..Len(demultiplexed_files_2) : demultiplexed_files_2[i].st # "open"

---------------------------------------------------------------------------
\* C1 (as stated): when every mate-2 name occurs in exactly one bucket and
\* the mate-2 reads of a bucket come in the bucket's relative order, the run
\* ends with demultiplexed = number of mate-2 reads and not matched = 0.
C1_AsStated ==
    (/\ EndedNormally
     /\ WholeReads
     /\ EachKeyInOneSlot
     /\ \A i \in 1..Len(demux1) : IsSubseq(Belonging(i), KeysOf(demux1[i])))
    => (log.demultiplexed = Len(KeysOf(file_2)) /\ log.not_matched = 0)

\* C1 (amended): when every mate-2 name occurs in exactly one bucket and the
\* mate-2 reads of each bucket are, in order, a prefix of that bucket's mate-1
\* reads (none skipped, none repeated), the run ends with demultiplexed =
\* number of mate-2 reads and not matched = 0.
C1_AllMatched ==
    (/\ EndedNormally
     /\ WholeReads
     /\ EachKeyInOneSlot
     /\ \A i \in 1..Len(demux1) : IsPrefix(Belonging(i), KeysOf(demux1[i])))
    => (log.demultiplexed = Len(KeysOf(file_2)) /\ log.not_matched = 0)

\* A = [id1], B = [id2], mate 2 = [id2, id1]: B gets id2, A gets id1.
C1_Witness ==
    /\ EndedNormally
    /\ demux1 = << FastqFile(<<"id1">>, "1", 0), FastqFile(<<"id2">>, "1", 0) >>
    /\ file_2 = FastqFile(<<"id2", "id1">>, "2", 0)
    /\ demultiplexed_files_2[1].data = FastqFile(<<"id1">>, "2", 0)
    /\ demultiplexed_files_2[2].data = FastqFile(<<"id2">>, "2", 0)
    /\ log = [demultiplexed |-> 2, not_matched |-> 0]

\* C2: first match wins.  A turn of the loop that processes a read named as
\* the lookahead of one or more buckets writes the read to the output of the
\* lowest such bucket only, replaces that bucket's lookahead by the next 4
\* lines of its mate-1 file, adds 1 to demultiplexed, and leaves not matched
\* and every other bucket's lookahead, position and output as they were.
C2_FirstMatchWins ==
    [][(AtRecord /\ MatchSet # {} /\ pc' = "loop") =>
        LET i == Lowest(MatchSet) IN
        /\ demultiplexed_files_2'[i].data = demultiplexed_files_2[i].data \o read_2_lines
        /\ slots'[i] = LinesAt(demux1[i], demultiplexed_files_1[i].pos)
        /\ demultiplexed_files_1'[i].pos =
              Min(demultiplexed_files_1[i].pos + LinesPerRead, Len(demux1[i]))
        /\ log'.demultiplexed = log.demultiplexed + 1
        /\ log'.not_matched = log.not_matched
        /\ stderr' = stderr
        /\ \A j \in (1..Len(slots)) \ {i} :
              /\ slots'[j] = slots[j]
              /\ demultiplexed_files_1'[j] = demultiplexed_files_1[j]
              /\ demultiplexed_files_2'[j] = demultiplexed_files_2[j]
      ]_vars

\* Both buckets look at id1: the read went to bucket 1, bucket 2 is untouched.
C2_Witness ==
    /\ pc = "loop"
    /\ Len(slots) = 2
    /\ KeysOf(demux1[1]) = <<"id1", "id2">>
    /\ KeysOf(demux1[2]) = <<"id1">>
    /\ KeysOf(file_2) = <<"id1", "id2">>
    /\ log.demultiplexed = 1
    /\ Len(demultiplexed_files_2[1].data) = LinesPerRead
    /\ demultiplexed_files_2[2].data = << >>
    /\ slots[1][1] # Empty /\ Key(slots[1][1]) = "id2"
    /\ slots[2][1] # Empty /\ Key(slots[2][1]) = "id1"

\* C3 (as stated): in every state demultiplexed + not matched equals the
\* number of reads read from the mate-2 file.
C3_AsStated == Counted = RecordsRead

\* C3 (amended): demultiplexed + not matched equals the number of whole reads
\* read from the mate-2 file less the read that is read and not yet
\* classified: one less at the head of a turn of the loop that holds a whole
\* read, never more than one less (an I/O failure may end the run at that
\* read), and equal whenever no exception propagates outside the loop, so at
\* the normal end of the run.
C3_CountsRecordsRead ==
    /\ RecordsRead - Counted \in {0, 1}
    /\ pc = "loop" => RecordsRead - Counted = (IF all(read_2_lines) THEN 1 ELSE 0)
    /\ (pc # "loop" /\ exc = "none") => Counted = RecordsRead

\* Two reads read, one matched and one not, the run ended normally.
C3_Witness ==
    /\ EndedNormally
    /\ RecordsRead = 2
    /\ log = [demultiplexed |-> 1, not_matched |-> 1]

\* C4: the 4 lines a turn of the loop appends to the output of bucket i are a
\* read named as the lookahead bucket i had before that turn, which is the
\* mate-1 read the turn takes from bucket i.
C4_WrittenKeyIsLookaheadKey ==
    [][\A i \in 1..Len(demultiplexed_files_2) :
          (pc = "loop" /\ demultiplexed_files_2'[i].data # demultiplexed_files_2[i].data) =>
             LET old == demultiplexed_files_2[i].data
                 new == demultiplexed_files_2'[i].data
             IN  /\ Len(new) = Len(old) + LinesPerRead
                 /\ SubSeq(new, 1, Len(old)) = old
                 /\ slots[i][1] # Empty
                 /\ Key(new[Len(old) + 1]) = Key(slots[i][1])
                 /\ exc' = "none" =>
                       /\ slots'[i] = LinesAt(demux1[i], demultiplexed_files_1[i].pos)
                       /\ Key(slots[i][1]) =
                             KeysOf(demux1[i])[(demultiplexed_files_1[i].pos + LinesPerRead - 1)
                                                  \div LinesPerRead]
      ]_vars

\* Bucket 2 has taken and written id2 while bucket 1 still looks at id1.
C4_Witness ==
    /\ pc = "loop"
    /\ Len(slots) = 2
    /\ slots[1][1] # Empty /\ Key(slots[1][1]) = "id1"
    /\ KeysOf(demux1[2]) = <<"id2", "id1">>
    /\ demultiplexed_files_2[1].data = << >>
    /\ KeysOf(demultiplexed_files_2[2].data) = <<"id2">>
    /\ slots[2][1] # Empty /\ Key(slots[2][1]) = "id1"

C6_AllReleasedOnFailure == pc = "crashed" => NoneOpen

\* C7 (the claim): 4 lines read from file_2 or from a bucket of which only
\* the first 1 to 3 exist are a malformed read: an exception is raised at once,
\* so such lines are never the lookahead of a bucket nor the read at hand of
\* a run that goes on or ends normally.
C7_MalformedAborts ==
    (\/ IsPartial(read_2_lines)
     \/ \E i \in 1..Len(slots) : IsPartial(slots[i]))
    => exc # "none"

\* The classifier could not be started, was not waited for, or exited with a
\* status other than 0.
ClassifierFailed == p \in {"not_started", "not_waited", "exit_nonzero"}

\* The engine has listed the buckets or opened a stream.
EngineStarted ==
    \/ pc \in {"open_f_2", "open_1", "open_2", "prime", "read", "loop", "finally", "exit_with"}
    \/ fnames # << >>
    \/ f_2.st # "none"
    \/ demultiplexed_files_1 # << >>
    \/ demultiplexed_files_2 # << >>
    \/ read_2_lines # << >>

\* C8 (the claim): after a failed classification the engine does not start:
\* no bucket is listed, no stream opened, no mate-2 read read.
C8_EngineNeverStarts == ClassifierFailed => ~EngineStarted

\* C9 (the claim): a job that fails does not keep the later jobs of the batch
\* from being started: when the program has ended, every job was started.
C9_LaterJobsRun == pc \in {"crashed", "exit"} => job = NumJobs

\* f_2 and one mate-1 input and one mate-2 output per listed bucket were
\* opened, and all are closed.
AllReleased ==
    /\ f_2.st = "closed"
    /\ Len(demultiplexed_files_1) = Len(fnames)
    /\ Len(demultiplexed_files_2) = Len(fnames)
    /\ \A i \in 1..Len(fnames) :
          /\ demultiplexed_files_1[i].st = "closed"
          /\ demultiplexed_files_2[i].st = "closed"

\* C10: when run() returns normally, f_2, the N mate-1 inputs and the N
\* mate-2 outputs are closed; a job starts only when no handle of the job
\* before it is open, and it starts with no bucket, no handle, no line read
\* and both counts 0.
C10_ClosedAtEndFreshAtStart ==
    [][/\ (pc = "exit_with" /\ pc' = "main") => AllReleased'
       /\ (pc = "main" /\ job >= 1) => AllReleased
       /\ job' # job =>
             /\ job >= 1 => AllReleased
             /\ log' = [demultiplexed |-> 0, not_matched |-> 0]
             /\ slots' = << >>
             /\ read_2_lines' = << >>
             /\ f_2'.st = "none"
             /\ demultiplexed_files_1' = << >>
             /\ demultiplexed_files_2' = << >>
      ]_vars

\* The second job has started after a first job of two buckets wrote a read
\* and ended normally.
C10_Witness ==
    /\ pc = "main"
    /\ job = 1
    /\ Len(fnames) = 2
    /\ AllReleased
    /\ log.demultiplexed >= 1
    /\ Len(demultiplexed_files_2[1].data) >= LinesPerRead

\* C11: a run on an empty mate-2 file that ends normally has opened one
\* mate-2 output per listed bucket, has written to none of them, and has both
\* counts at 0.
C11_EmptyMate2 ==
    (EndedNormally /\ file_2 = << >>) =>
       /\ Len(demultiplexed_files_2) = Len(demux1)
       /\ \A i \in 1..Len(demultiplexed_files_2) : demultiplexed_files_2[i].data = << >>
       /\ log = [demultiplexed |-> 0, not_matched |-> 0]

\* Two buckets that hold reads, an empty mate-2 file: two empty outputs.
C11_Witness ==
    /\ EndedNormally
    /\ file_2 = << >>
    /\ Len(demux1) = 2
    /\ KeysOf(demux1[1]) = <<"id1", "id2">>
    /\ KeysOf(demux1[2]) = <<"id2">>
    /\ Len(demultiplexed_files_2) = 2
    /\ demultiplexed_files_2[1].data = << >>
    /\ demultiplexed_files_2[2].data = << >>

\* C12: a run with no bucket that ends normally has counted every whole read
\* of the mate-2 file as not matched and none as demultiplexed.
C12_ZeroSlots ==
    (EndedNormally /\ Len(demux1) = 0) =>
       /\ log.not_matched = Len(file_2) \div LinesPerRead
       /\ log.demultiplexed = 0

\* No bucket, two mate-2 reads: both named on stderr and counted.
C12_Witness ==
    /\ EndedNormally
    /\ Len(demux1) = 0
    /\ file_2 = FastqFile(<<"id1", "id2">>, "2", 0)
    /\ log = [demultiplexed |-> 0, not_matched |-> 2]
    /\ stderr = <<"id1", "id2">>

\* The classifier has been waited for: p.wait() returned an exit status.
ClassifierCompleted == p \in {"exit_0", "exit_nonzero"}

\* C17: whenever the engine has listed the buckets, opened a stream or read a
\* mate-2 read, the classifier has taken its whole input and has exited.
C17_PhasesDoNotOverlap == EngineStarted => ClassifierCompleted

\* The loop is at a mate-2 read while the classifier has long exited.
C17_Witness ==
    /\ AtRecord
    /\ Len(slots) = 2
    /\ ClassifierCompleted
    /\ f_2.st = "open"

\* The result of a run written as a function of its inputs alone: the state of
\* the loop of lines 199-230 after the first r whole reads of the mate-2 file
\* m2 against the bucket files bs, with used[i] the number of reads taken from
\* bucket i, out[i] the lines written to output i, and the two counts.
RECURSIVE ResultAfter(_, _, _)
ResultAfter(bs, m2, r) ==
    IF r = 0
    THEN [used      |-> [i \in 1..Len(bs) |-> 0],
          out       |-> [i \in 1..Len(bs) |-> << >>],
          matched   |-> 0,
          unmatched |-> 0]
    ELSE LET s     == ResultAfter(bs, m2, r - 1)
             first == LinesPerRead * (r - 1) + 1
             name  == m2[first][1]
             head(i) == LinesPerRead * s.used[i] + 1
             M     == {i \in 1..Len(bs) :
                          /\ head(i) <= Len(bs[i])
                          /\ bs[i][head(i)][1] = name}
         IN  IF M = {}
             THEN [s EXCEPT !.unmatched = @ + 1]
             ELSE LET i == CHOOSE j \in M : \A l \in M : j <= l
                  IN  [s EXCEPT !.used[i] = @ + 1,
                                !.out[i]  = @ \o SubSeq(m2, first, first + LinesPerRead - 1),
                                !.matched = @ + 1]

\* The result of a whole run on the bucket files bs and the mate-2 file m2.
ResultOf(bs, m2) == ResultAfter(bs, m2, Len(m2) \div LinesPerRead)

\* C13: the outputs and the two counts of a run that ends normally are a
\* function of its inputs (the bucket files in their listed order and the
\* mate-2 file): every such run on the same inputs, whichever job of the batch
\* it is, ends with the same lines in every output and the same counts.
C13_Deterministic ==
    EndedNormally =>
       LET res == ResultOf(demux1, file_2)
       IN  /\ Len(demultiplexed_files_2) = Len(demux1)
           /\ \A i \in 1..Len(demux1) : demultiplexed_files_2[i].data = res.out[i]
           /\ log.demultiplexed = res.matched
           /\ log.not_matched = res.unmatched

\* The second job of a batch ends on two buckets that both hold id1 first: the
\* first id1 went to output 1, the second to output 2.
C13_Witness ==
    /\ EndedNormally
    /\ job = 2
    /\ Len(demux1) = 2
    /\ KeysOf(demux1[1]) = <<"id1", "id2">>
    /\ KeysOf(demux1[2]) = <<"id1">>
    /\ KeysOf(file_2) = <<"id1", "id1">>
    /\ WholeReads
    /\ log = [demultiplexed |-> 2, not_matched |-> 0]
    /\ demultiplexed_files_2[1].data = ReadLines("id1", "2")
    /\ demultiplexed_files_2[2].data = ReadLines("id1", "2")

\* Bucket i is open in both states of a step of one job.
SameSlot(i) ==
    /\ job' = job
    /\ i \in 1..Len(demultiplexed_files_1)
    /\ i \in 1..Len(demultiplexed_files_1')

\* C14: the read position of a bucket's mate-1 file never decreases; after
\* priming it changes only in a turn of the loop whose mate-2 read is named as
\* that bucket's lookahead and for which that bucket is the lowest such one,
\* and then by the one read that was its lookahead (4 lines, or what is left
\* of the file).
C14_Mate1Forward ==
    [][\A i \in 1..MaxSlots :
         SameSlot(i) =>
           LET pos  == demultiplexed_files_1[i].pos
               pos2 == demultiplexed_files_1'[i].pos
           IN  /\ pos2 >= pos
               /\ (pos2 # pos /\ pc # "prime") =>
                     /\ AtRecord
                     /\ slots[i][1] # Empty
                     /\ Key(slots[i][1]) = Key(read_2_lines[1])
                     /\ i = Lowest(MatchSet)
                     /\ pos2 = Min(pos + LinesPerRead, Len(demux1[i]))
                     /\ log'.demultiplexed = log.demultiplexed + 1
      ]_vars

\* Bucket 1 has given its first read to the mate-2 read id1 and is one read
\* further than its priming; bucket 2 is where priming left it.
C14_Witness ==
    /\ pc = "loop"
    /\ Len(slots) = 2
    /\ KeysOf(demux1[1]) = <<"id1", "id2">>
    /\ KeysOf(demux1[2]) = <<"id2">>
    /\ WholeReads
    /\ KeysOf(file_2) = <<"id1", "id1">>
    /\ demultiplexed_files_1[1].pos = 2 * LinesPerRead
    /\ demultiplexed_files_1[2].pos = LinesPerRead
    /\ log.demultiplexed = 1

\* Bucket i has a lookahead in both states of a step of one job.
SameLookahead(i) ==
    /\ job' = job
    /\ i \in 1..Len(slots)
    /\ i \in 1..Len(slots')

\* C15: a bucket whose lookahead is the end of its mate-1 file keeps that
\* lookahead for the rest of the job, is never the bucket the scan picks, has
\* its mate-1 file read no further and has nothing more written to its output.
C15_EndOfStreamStays ==
    [][\A i \in 1..MaxSlots :
         (SameLookahead(i) /\ slots[i][1] = Empty) =>
            /\ slots'[i] = slots[i]
            /\ AtRecord => find_slot(slots, read_name_of(read_2_lines)) # i
            /\ demultiplexed_files_1'[i].pos = demultiplexed_files_1[i].pos
            /\ demultiplexed_files_2'[i].data = demultiplexed_files_2[i].data
      ]_vars

\* Bucket 1 ran out after its only read id1 and bucket 2 was empty at priming:
\* the second mate-2 read id1 found no bucket and was counted not matched.
C15_Witness ==
    /\ pc = "loop"
    /\ Len(slots) = 2
    /\ KeysOf(demux1[1]) = <<"id1">>
    /\ demux1[2] = << >>
    /\ KeysOf(file_2) = <<"id1", "id1">>
    /\ WholeReads
    /\ slots[1][1] = Empty
    /\ slots[2][1] = Empty
    /\ log = [demultiplexed |-> 1, not_matched |-> 1]
    /\ demultiplexed_files_2[1].data = ReadLines("id1", "2")
    /\ demultiplexed_files_2[2].data = << >>

---------------------------------------------------------------------------
\* The program with every open, read, write, close and Popen succeeding

\* A step of action A in which no call raises.
NoFault(A) == A /\ exc' = "none" /\ pc' # "crashed"

FaultFreeNext ==
    \/ NoFault(StartJob)
    \/ NoFault(Return)
    \/ NoFault(ClassifyExits)
    \/ NoFault(ListDir)
    \/ NoFault(OpenMate2)
    \/ NoFault(OpenDemux1)
    \/ NoFault(OpenDemux2)
    \/ NoFault(Prime)
    \/ NoFault(ReadFirst)
    \/ NoFault(Loop)
    \/ NoFault(LoopEnds)
    \/ NoFault(Finally)
    \/ NoFault(ExitWith)

\* One thread runs the statements of main in sequence: a statement that can
\* run does run.
FaultFreeSpec == Init /\ [][FaultFreeNext]_vars /\ WF_vars(FaultFreeNext)

\* run() has returned normally with the mate-2 file read to its end and every
\* whole read of it counted once.
Mate2Exhausted ==
    /\ EndedNormally
    /\ f_2.pos = Len(file_2)
    /\ RecordsRead = Len(file_2) \div LinesPerRead
    /\ Counted = RecordsRead

\* C16: with finite files and no failing call, a run that has started
\* returns normally, and it has returned only with the mate-2 file read to its
\* end and each of its reads counted once, whatever is left unread in the
\* mate-1 files of the buckets.
C16_Terminates ==
    /\ [](EndedNormally => Mate2Exhausted)
    /\ (pc = "classify") ~> Mate2Exhausted

\* The run has returned normally while bucket 1 still holds its read id2,
\* unread past the lookahead, and bucket 2 its read id2, never matched.
C16_Witness ==
    /\ Mate2Exhausted
    /\ Len(slots) = 2
    /\ KeysOf(demux1[1]) = <<"id1", "id2">>
    /\ KeysOf(demux1[2]) = <<"id2">>
    /\ KeysOf(file_2) = <<"id1">>
    /\ WholeReads
    /\ slots[1][1] # Empty /\ Key(slots[1][1]) = "id2"
    /\ demultiplexed_files_1[1].pos = Len(demux1[1])
    /\ slots[2][1] # Empty /\ Key(slots[2][1]) = "id2"
    /\ log = [demultiplexed |-> 1, not_matched |-> 0]

---------------------------------------------------------------------------
\* The reads of bucket i's mate-1 file taken so far by a match: all the reads
\* read from the file but the one that is the lookahead.
Consumed(i) ==
    IF i \notin 1..Len(slots) THEN 0
    ELSE IF slots[i][1] = Empty THEN Len(KeysOf(demux1[i]))
    ELSE (demultiplexed_files_1[i].pos + LinesPerRead - 1) \div LinesPerRead - 1

ConsumedKeys(i) == SubSeq(KeysOf(demux1[i]), 1, Consumed(i))

\* The names of the reads written so far to bucket i's mate-2 output.
WrittenKeys(i) == KeysOf(demultiplexed_files_2[i].data)

\* C18 (as stated): in every state the names written to the output of each
\* bucket are exactly the names of the mate-1 reads consumed from it.
C18_AsStated ==
    \A i \in 1..Len(demultiplexed_files_2) : WrittenKeys(i) = ConsumedKeys(i)

\* C18: in every state the names written to the output of each bucket are, in
\* order, a prefix of the names of the bucket's mate-1 file, so no more than
\* the bucket holds; they are exactly the names of the mate-1 reads consumed
\* from it as long as no call of the job has raised, and at most the one read
\* written last more than those after a call has raised.
C18_OutputIsPrefix ==
    \A i \in 1..Len(demultiplexed_files_2) :
        /\ IsPrefix(WrittenKeys(i), KeysOf(demux1[i]))
        /\ Len(WrittenKeys(i)) <= Len(KeysOf(demux1[i]))
        /\ IsPrefix(ConsumedKeys(i), WrittenKeys(i))
        /\ Len(WrittenKeys(i)) <= Consumed(i) + 1
        /\ exc = "none" => WrittenKeys(i) = ConsumedKeys(i)

\* Both reads of bucket 1 have been consumed and written, in the bucket's
\* order, and the loop goes on.
C18_Witness ==
    /\ pc = "loop"
    /\ exc = "none"
    /\ Len(slots) = 2
    /\ KeysOf(demux1[1]) = <<"id1", "id2">>
    /\ KeysOf(demux1[2]) = <<"id2">>
    /\ WholeReads
    /\ WrittenKeys(1) = <<"id1", "id2">>
    /\ ConsumedKeys(1) = <<"id1", "id2">>
    /\ WrittenKeys(2) = << >>
    /\ Consumed(2) = 0

\* The whole reads written so far to the outputs of the first n buckets.
RECURSIVE WrittenUpTo(_)
WrittenUpTo(n) ==
    IF n = 0 THEN 0
    ELSE WrittenUpTo(n - 1) + Len(demultiplexed_files_2[n].data) \div LinesPerRead

TotalWritten == WrittenUpTo(Len(demultiplexed_files_2))

\* The outputs whose contents a step changes.
Grown ==
    {i \in 1..Len(demultiplexed_files_2) :
        /\ i \in 1..Len(demultiplexed_files_2')
        /\ demultiplexed_files_2'[i].data # demultiplexed_files_2[i].data}

\* C19 (as stated): in every state demultiplexed equals the number of reads
\* written to all the outputs together.
C19_AsStated == log.demultiplexed = TotalWritten

\* demultiplexed equals the number of reads written as long as no call of the
\* job has raised, and is never more than the one read written last behind.
CountsWritten ==
    /\ log.demultiplexed <= TotalWritten
    /\ TotalWritten <= log.demultiplexed + 1
    /\ TotalWritten <= RecordsRead
    /\ exc = "none" => log.demultiplexed = TotalWritten

\* C19: demultiplexed equals the number of reads written to all the outputs
\* as long as no call of the job has raised (after a failure of the mate-1
\* read that follows a write it is one less), and a step of a job writes to at
\* most one output, and then the 4 lines of the mate-2 read at hand once,
\* after which the loop has the next read of the file or is left.
C19_CountIsWritten ==
    [][/\ CountsWritten
       /\ CountsWritten'
       /\ job' = job =>
            /\ Cardinality(Grown) <= 1
            /\ \A i \in Grown :
                 /\ AtRecord
                 /\ demultiplexed_files_2'[i].data =
                       demultiplexed_files_2[i].data \o read_2_lines
                 /\ \/ pc' = "finally" /\ exc' # "none"
                    \/ /\ pc' = "loop"
                       /\ read_2_lines' = LinesAt(file_2, f_2.pos)
                       /\ f_2'.pos = Min(f_2.pos + LinesPerRead, Len(file_2))
      ]_vars

\* Two mate-2 reads went one to each output and demultiplexed is 2.
C19_Witness ==
    /\ pc = "loop"
    /\ exc = "none"
    /\ Len(demultiplexed_files_2) = 2
    /\ KeysOf(demux1[1]) = <<"id1">>
    /\ KeysOf(demux1[2]) = <<"id2">>
    /\ demultiplexed_files_2[1].data = ReadLines("id1", "2")
    /\ demultiplexed_files_2[2].data = ReadLines("id2", "2")
    /\ TotalWritten = 2
    /\ log = [demultiplexed |-> 2, not_matched |-> 0]

\* The mate-2 read at hand is named as a read of bucket i that lies behind
\* the bucket's lookahead, and not as the lookahead itself.
Deeper(i) ==
    /\ slots[i][1] # Empty
    /\ Key(slots[i][1]) # Key(read_2_lines[1])
    /\ \E n \in (Consumed(i) + 2)..Len(KeysOf(demux1[i])) :
          KeysOf(demux1[i])[n] = Key(read_2_lines[1])

\* C20: head-of-line blocking.  While the lookahead of a bucket is a read
\* named k, a step of the job changes that lookahead or the bucket's output
\* only in a turn of the loop whose mate-2 read is named k; and a mate-2 read
\* that is the lookahead of no bucket, though a bucket holds a read of its
\* name behind its lookahead, is counted not matched, is written to no output
\* and advances no bucket.
C20_HeadOfLine ==
    [][/\ \A i \in 1..MaxSlots :
            (/\ SameLookahead(i)
             /\ slots[i][1] # Empty
             /\ \/ slots'[i] # slots[i]
                \/ demultiplexed_files_1'[i].pos # demultiplexed_files_1[i].pos
                \/ demultiplexed_files_2'[i].data # demultiplexed_files_2[i].data)
            => (AtRecord /\ Key(read_2_lines[1]) = Key(slots[i][1]))
       /\ (AtRecord /\ MatchSet = {} /\ \E i \in 1..Len(slots) : Deeper(i)) =>
            /\ log'.not_matched = log.not_matched + 1
            /\ log'.demultiplexed = log.demultiplexed
            /\ slots' = slots
            /\ \A i \in 1..Len(slots) :
                  /\ demultiplexed_files_1'[i].pos = demultiplexed_files_1[i].pos
                  /\ demultiplexed_files_2'[i].data = demultiplexed_files_2[i].data
      ]_vars

\* Bucket 1 holds id1 then id2 and the mate-2 file id2 twice: id1 never came,
\* the bucket still looks at id1, both id2 were counted not matched and the
\* output is empty.
C20_Witness ==
    /\ pc = "loop"
    /\ ~all(read_2_lines)
    /\ Len(slots) = 1
    /\ KeysOf(demux1[1]) = <<"id1", "id2">>
    /\ WholeReads
    /\ KeysOf(file_2) = <<"id2", "id2">>
    /\ slots[1][1] # Empty /\ Key(slots[1][1]) = "id1"
    /\ demultiplexed_files_1[1].pos = LinesPerRead
    /\ demultiplexed_files_2[1].data = << >>
    /\ log = [demultiplexed |-> 0, not_matched |-> 2]
    /\ stderr = <<"id2", "id2">>

=============================================================================
